---- MODULE Spec2Model ----
(***************************************************************************)
(* Session lifecycle of bulk-image-trans: upload_files and                 *)
(* process_files_background of app.py (one request handler and one Runner  *)
(* thread per session) on top of FileManager (file_manager.py): the        *)
(* in-memory metadata dict, the persisted file_metadata.json, the          *)
(* uploads/<id> and output/<id> directories, and cleanup_old_files (the    *)
(* retention sweep).  FileManager takes no lock, so the threads interleave *)
(* at every statement that reads or writes shared state.  app.py starts    *)
(* its Runners as eventlet green threads; FileManager does not rely on a   *)
(* cooperative scheduler, and neither does this model.                     *)
(***************************************************************************)
EXTENDS Integers, Sequences, FiniteSets, TLC

\* ------------------------------------------------------------------ bounds
NumSessions == 2         \* uploads in a run without a sweep (SpecRunners)
MaxSweptSessions == 1    \* uploads in a run with sweeps and a clock (Spec)
MaxFiles == 2            \* files accepted in one upload
MaxAgeHours == 1         \* FileManager(max_age_hours=...), in clock ticks
MaxTicks == 2            \* clock ticks in one run
MaxSweeps == 1           \* calls of cleanup_old_files in one run
MaxSuccessiveSweeps == 2 \* calls of cleanup_old_files in a run of sweeps only (SpecSweeps)
MaxRmFailures == 1       \* shutil.rmtree calls that raise in one run
MaxCompleted == 1        \* completed_files entries per record in a run of direct calls (SpecStore)
MaxCallId == 1           \* largest session id passed in a direct call (SpecStore)
MaxLanguages == 2        \* codes in a list passed to adjust_ocr_languages (SpecLanguages)
MaxFormParts == 2        \* comma-separated parts of the ocr_languages form value (SpecLanguages)

\* Session ids: PrevId was registered by an earlier run of the server and is
\* in file_metadata.json at start; SessionIds are the uuid4 values of this run.
PrevId == 0
SessionIds == 1..NumSessions
AllIds == {PrevId} \cup SessionIds
SweepThread == -1
Threads == SessionIds \cup {SweepThread}
FileNames == {"a.png", "b.png"}

\* All sequences over S of length at most n.
RECURSIVE SeqsUpTo(_, _)
SeqsUpTo(S, n) ==
    IF n = 0 THEN {<<>>}
    ELSE LET shorter == SeqsUpTo(S, n - 1)
         IN  shorter \cup {Append(q, x) : q \in shorter, x \in S}

Range(q) == {q[k] : k \in 1..Len(q)}

\* The uploads that differ by more than a renaming of the files.
FileLists == {fl \in SeqsUpTo(FileNames, MaxFiles) : fl = <<>> \/ fl[1] = "a.png"}

\* ------------------------------------------------- the files of a request
ALLOWED_EXTENSIONS == {"png", "jpg", "jpeg", "bmp", "tiff"}
\* The file names a request can carry: the two images, a text file, and the
\* empty name of a file field that was left empty.
RequestNames == FileNames \cup {"c.txt", ""}
\* filename.rsplit('.', 1)[1].lower()
Extension(filename) ==
    CASE filename \in {"a.png", "b.png"} -> "png"
      [] filename = "c.txt" -> "txt"
\* file and allowed_file(file.filename)
AllowedFile(filename) ==
    filename # "" /\ Extension(filename) \in ALLOWED_EXTENSIONS
\* request.files: no 'files' field, or the list request.files.getlist('files').
NoFilesField == [has_files |-> FALSE, files |-> <<>>]
FilesField(files) == [has_files |-> TRUE, files |-> files]
\* upload_files: uploaded_files, the allowed files of the request in order.
UploadedFiles(files) == SelectSeq(files, AllowedFile)
Requests ==
    {NoFilesField} \cup
    {FilesField(q) : q \in {q \in SeqsUpTo(RequestNames, MaxFiles) :
                               UploadedFiles(q) \in FileLists}}

\* ------------------------------------------------- OCR languages
\* The detector-language codes a list can hold.
LanguageCodes == {"ch_sim", "ch_tra", "en", "fr"}
LanguageLists == SeqsUpTo(LanguageCodes, MaxLanguages)

\* adjust_ocr_languages(languages)
AdjustOcrLanguages(languages) ==
    IF \E k \in 1..Len(languages) : languages[k] \in {"ch_sim", "ch_tra"}
    THEN IF "ch_sim" \in Range(languages)
         THEN <<"ch_sim", "en">> ELSE <<"ch_tra", "en">>
    ELSE IF "en" \in Range(languages) THEN <<"en">> ELSE languages

\* What a client writes between the commas of the ocr_languages form value.
FormTokens ==
    {"chinese", "Chinese", "CHINESE", "zh", "ZH", " zh ", "english", "English",
     "en", "EN", "En", "fr", "ch_tra", "CH_SIM"}

\* str.strip() on the tokens.
Strip(x) == IF x = " zh " THEN "zh" ELSE x

\* Mutant: the token is looked up as it was written.
LowerKeepsCase(x) == x

\* str.lower() on the stripped tokens.
Lower(x) ==
    CASE x \in {"Chinese", "CHINESE"} -> "chinese"
      [] x = "ZH" -> "zh"
      [] x = "English" -> "english"
      [] x \in {"EN", "En"} -> "en"
      [] x = "CH_SIM" -> "ch_sim"
      [] OTHER -> x

\* upload_files: language_mapping.
language_mapping ==
    [x \in {"chinese", "zh", "english", "en"} |->
        IF x \in {"chinese", "zh"} THEN "ch_sim" ELSE "en"]

\* request.form: the ocr_languages field is absent, or holds parts separated
\* by commas: one token, or a token and more parts, here all "en".
NoOcrLanguages == [has |-> FALSE, parts |-> <<>>]
OcrLanguagesForm(parts) == [has |-> TRUE, parts |-> parts]
Forms ==
    {NoOcrLanguages} \cup
    {OcrLanguagesForm(q) : q \in {q \in SeqsUpTo(FormTokens, MaxFormParts) :
                                      /\ q # <<>>
                                      /\ \A k \in 2..Len(q) : q[k] = "en"}}

\* settings.get('ocr_languages', 'en').split(',')[0].strip()
RawLanguage(form) == IF form.has THEN Strip(form.parts[1]) ELSE "en"

\* language_mapping.get(raw_language.lower(), raw_language)
OcrLanguage(raw_language) ==
    IF Lower(raw_language) \in DOMAIN language_mapping
    THEN language_mapping[Lower(raw_language)] ELSE raw_language

\* upload_files: pipeline_settings.
PipelineSettings(form) ==
    [ocr_languages |-> AdjustOcrLanguages(<<OcrLanguage(RawLanguage(form))>>)]

NoSettings == [ocr_languages |-> <<>>]
NotAdjusted == [called |-> FALSE, languages |-> <<>>, result |-> <<>>]

VARIABLES
    now,                  \* datetime.now()
    metadata,             \* FileManager.metadata: dict in insertion order
    disk,                 \* file_metadata.json
    buf,                  \* per thread: the text json.dump put in its open file object
    processing_sessions,  \* app.processing_sessions
    uploads,              \* directories under uploads/
    output,               \* directories under output/
    events,               \* per session: what socketio.emit sent, in order
    pc,                   \* per session: where its request handler / Runner is
    idx,                  \* per session: the Runner's loop index i
    sweep,                \* the thread inside cleanup_old_files
    nsweeps,              \* sweeps started
    nfail,                \* rmtree failures so far
    uploaded_files,       \* per session: upload_files' list of saved files
    settings,             \* per session: upload_files' pipeline_settings
    calls,                \* per session and file: the stages process_single_image called
    adjusted              \* the last direct call of adjust_ocr_languages

vars == <<now, metadata, disk, buf, processing_sessions, uploads, output,
          events, pc, idx, sweep, nsweeps, nfail, uploaded_files, settings,
          calls, adjusted>>

\* ------------------------------------------------- the metadata dictionary
Keys(m) == {m[k].session_id : k \in 1..Len(m)}
Has(m, s) == s \in Keys(m)
IndexOf(m, s) == CHOOSE k \in 1..Len(m) : m[k].session_id = s
Get(m, s) == m[IndexOf(m, s)]
\* m[s] = r
SetItem(m, s, r) ==
    IF Has(m, s) THEN [m EXCEPT ![IndexOf(m, s)] = r] ELSE Append(m, r)
\* Mutant: the del leaves the dict as it is.
DelItemKeeps(m, s) == m

\* del m[s]
DelItem(m, s) == SelectSeq(m, LAMBDA r : r.session_id # s)

\* ------------------------------------------------- file_metadata.json
\* json.dump(self.metadata): one "key": value member per session, in order.
Dump(m) == [k \in 1..Len(m) |-> <<m[k].session_id, m[k]>>]
\* json.load of a well-formed document.
Parse(doc) == [k \in 1..Len(doc) |-> doc[k][2]]
NoFile == [state |-> "absent", doc |-> <<>>]
Truncated == [state |-> "empty", doc |-> <<>>]
Written(doc) == [state |-> "valid", doc |-> doc]
Garbled == [state |-> "corrupt", doc |-> <<>>]

\* FileManager._load_metadata: {} when the file is absent or json.load raises.
LoadMetadata(d) == IF d.state = "valid" THEN Parse(d.doc) ELSE <<>>

\* What the file holds after a file object opened with 'w' (offset 0) flushes
\* text b on close.  If nothing was written since it truncated the file, or
\* the same text was, the file holds b.  If another thread wrote other text in
\* between, b overwrites its first len(b) bytes: the file is b when b is at
\* least as long, and b followed by the other text's tail (not JSON) when not.
FlushResults(cur, b) ==
    IF cur.state = "empty" \/ (cur.state = "valid" /\ cur.doc = b)
    THEN {Written(b)}
    ELSE {Written(b), Garbled}

\* ------------------------------------------------- records and events
\* Mutant: a record is registered with a status of its own.
NewRecordPending(s, fl, st, t) ==
    [session_id |-> s, created_at |-> t, files |-> fl, settings |-> st,
     status |-> "pending", completed_files |-> <<>>]

\* FileManager.register_session: session_data.
NewRecord(s, fl, st, t) ==
    [session_id |-> s, created_at |-> t, files |-> fl, settings |-> st,
     status |-> "processing", completed_files |-> <<>>]

\* f"{name}_translated{ext}" with name, ext = os.path.splitext(original_name).
TranslatedName(n) ==
    CASE n = "a.png" -> "a_translated.png"
      [] n = "b.png" -> "b_translated.png"

\* FileManager.add_completed_file: completed_file.
CompletedFile(s, n) ==
    [original_name |-> n,
     output_path |-> <<"output", s, TranslatedName(n)>>,
     download_url |-> <<"/output", s, TranslatedName(n)>>]

\* Mutant: the count of completed files starts at one.
SessionDataCountsFromOne(s, fl, st) ==
    [files |-> fl, settings |-> st, output_folder |-> s, completed |-> 1,
     total |-> Len(fl)]

\* app.upload_files: session_data kept in processing_sessions.
SessionData(s, fl, st) ==
    [files |-> fl, settings |-> st, output_folder |-> s, completed |-> 0,
     total |-> Len(fl)]

ProgressEvent(p) == [kind |-> "progress", progress |-> p]
ErrorEvent == [kind |-> "error"]
\* Mutant: the terminal event goes out as one more progress event.
CompleteEventAsProgress(c, t, links) ==
    [kind |-> "progress", progress |-> 100, completed |-> c, total |-> t,
     download_links |-> links]

CompleteEvent(c, t, links) ==
    [kind |-> "processing_complete", completed |-> c, total |-> t,
     download_links |-> links]

\* Mutant: a statement after the last emit raises, and the except clause of
\* process_files_background emits its error event.
FinalEventsThenError(c, t, links) == <<CompleteEvent(c, t, links), ErrorEvent>>

\* What process_files_background emits after update_session_status.
FinalEvents(c, t, links) == <<CompleteEvent(c, t, links)>>

\* int((i / total) * 100)
Percent(i, total) == (i * 100) \div total

\* GeminiTranslator.translate_texts, as app.py calls it: it returns the
\* translations or raises.
TranslateTextsResults == {"returns", "raises"}

\* ImageTranslationPipeline.__init__: the four constructors return or one raises.
PipelineInitResults == {"ok", "raises"}

\* The record an earlier run left in file_metadata.json, with status st: one
\* file, registered exactly max_age before this run starts.
PrevRecord(st) ==
    [session_id |-> PrevId, created_at |-> 0 - MaxAgeHours, files |-> <<"a.png">>,
     settings |-> PipelineSettings(NoOcrLanguages), status |-> st,
     completed_files |-> IF st = "completed"
                         THEN <<CompletedFile(PrevId, "a.png")>> ELSE <<>>]

\* A directory made at time t, and what is in it.  ctime is what
\* os.path.getctime returns: st_ctime, on POSIX the time of the last change of
\* the directory's inode, which creating an entry in the directory updates (on
\* Windows it is the creation time).
Dir(t, fs) == [created |-> t, ctime |-> t, files |-> fs]

\* The directory d after an entry was created in it at time t.
Touched(d, t, fs) == [d EXCEPT !.ctime = t, !.files = @ \cup fs]
Remove(tree, d) == [x \in DOMAIN tree \ {d} |-> tree[x]]

\* FileManager._get_dir_size, in files.
GetDirSize(tree, d) == IF d \in DOMAIN tree THEN Cardinality(tree[d].files) ELSE 0

\* The thread in cleanup_old_files: where it is, its arguments and locals.
\* k sessions of sessions_to_delete have been dealt with.  before is no state
\* of the program: it keeps, for properties of successive calls, the arguments
\* and the report of the call before this one and the rmtree failures up to
\* this call.
IdleSweep ==
    [pc |-> "idle", dry_run |-> FALSE, cutoff |-> 0, sessions_to_delete |-> <<>>,
     k |-> 0, deleted_sessions |-> <<>>, deleted_files |-> {}, freed_space |-> 0,
     errors |-> <<>>, orphan_cutoff |-> 0,
     before |-> [ran |-> FALSE, dry_run |-> FALSE, cutoff |-> 0,
                 orphan_cutoff |-> 0, deleted_sessions |-> <<>>,
                 deleted_files |-> {}, failures |-> 0]]

\* What an earlier run left when it stopped inside upload_files, after the
\* makedirs calls and before register_session: both directories and no record.
\* Its file was saved at time t.
PrevOrphans(t) == (PrevId :> Touched(Dir(0 - MaxAgeHours, {}), t, {"a.png"}))

\* FileManager.__init__ at module import: the server starts with no
\* file_metadata.json and no directories, or with directories an earlier run
\* left without a record, or with the file_metadata.json an earlier run left
\* and that run's directories.
Init ==
    /\ now = 0
    /\ \E st \in {"none", "orphaned", "processing", "completed"} :
         IF st = "none"
         THEN disk = NoFile /\ uploads = <<>> /\ output = <<>>
         ELSE IF st = "orphaned"
         THEN /\ disk = NoFile
              /\ \E t \in {0 - MaxAgeHours, 1 - MaxAgeHours} : uploads = PrevOrphans(t)
              /\ output = (PrevId :> Dir(0 - MaxAgeHours, {}))
         ELSE /\ disk = Written(Dump(<<PrevRecord(st)>>))
              /\ uploads = (PrevId :> Dir(0 - MaxAgeHours, {"a.png"}))
              /\ output = (PrevId :> Dir(0 - MaxAgeHours,
                               IF st = "completed"
                               THEN {TranslatedName("a.png")} ELSE {}))
    /\ metadata = LoadMetadata(disk)
    /\ buf = [t \in Threads |-> <<>>]
    /\ processing_sessions = <<>>
    /\ events = [s \in SessionIds |-> <<>>]
    /\ pc = [s \in SessionIds |-> "idle"]
    /\ idx = [s \in SessionIds |-> 0]
    /\ sweep = IdleSweep
    /\ nsweeps = 0
    /\ nfail = 0
    /\ uploaded_files = [s \in SessionIds |-> <<>>]
    /\ settings = [s \in SessionIds |-> NoSettings]
    /\ calls = [s \in SessionIds |-> <<>>]
    /\ adjusted = NotAdjusted

\* The clock.  It is read by register_session and by the sweep, and advances
\* as long as a sweep can still read it.
TickWithin(limit) ==
    /\ now < MaxTicks
    /\ nsweeps < limit \/ sweep.pc # "idle"
    /\ now' = now + 1
    /\ UNCHANGED <<metadata, disk, buf, processing_sessions, uploads, output,
                   events, pc, idx, sweep, nsweeps, nfail, uploaded_files,
                   calls, settings, adjusted>>

Tick == TickWithin(MaxSweeps)

\* ------------------------------------------------- FileManager._save_metadata
\* open(self.metadata_file, 'w') truncates the file; json.dump serialises the
\* dict as it is now into the file object.
SaveOpen(t) ==
    /\ disk' = Truncated
    /\ buf' = [buf EXCEPT ![t] = Dump(metadata)]

\* Leaving the with block closes the file object, which flushes the text.
SaveClose(t) ==
    /\ \E r \in FlushResults(disk, buf[t]) : disk' = r
    /\ buf' = [buf EXCEPT ![t] = <<>>]

Goto(s, l) == pc' = [pc EXCEPT ![s] = l]
Emit(s, e) == events' = [events EXCEPT ![s] = Append(@, e)]
\* ------------------------------------------------- app.upload_files
\* The request req with the form: without a 'files' field it is answered with
\* status 400; otherwise a fresh uuid4 s, makedirs of both session
\* directories, file.save of every allowed file, pipeline_settings.
UploadFiles(s, req, form) ==
    /\ pc[s] = "idle"
    /\ \A r \in SessionIds : r < s => pc[r] # "idle"
    /\ IF ~req.has_files
       THEN UNCHANGED <<uploads, output, uploaded_files, settings, pc>>
       ELSE /\ uploads' = uploads @@ (s :> Dir(now, Range(UploadedFiles(req.files))))
            /\ output' = output @@ (s :> Dir(now, {}))
            /\ uploaded_files' = [uploaded_files EXCEPT ![s] = UploadedFiles(req.files)]
            /\ settings' = [settings EXCEPT ![s] = PipelineSettings(form)]
            /\ Goto(s, "register")
    /\ UNCHANGED <<now, metadata, disk, buf, processing_sessions, events, idx,
                   sweep, nsweeps, nfail, calls, adjusted>>

\* FileManager.register_session: self.metadata[session_id] = session_data.
RegisterSession(s) ==
    /\ pc[s] = "register"
    /\ metadata' = SetItem(metadata, s,
                           NewRecord(s, uploaded_files[s], settings[s], now))
    /\ Goto(s, "register_save")
    /\ UNCHANGED <<now, disk, buf, processing_sessions, uploads, output, events,
                   idx, sweep, nsweeps, nfail, uploaded_files,
                   calls, settings, adjusted>>

\* ------------------------------------------------- app.process_files_background
\* Mutant: the loop ends after its first file.
LoopPcFirstFileOnly(s, i) ==
    IF i = 0 /\ i < Len(uploaded_files[s]) /\ s \in DOMAIN processing_sessions
    THEN "process" ELSE "update_check"

\* The head of the for loop for index i: the test that the session is still in
\* processing_sessions, and the progress event that announces file i.  After
\* the last file the Runner goes on to update_session_status.
LoopPc(s, i) ==
    IF i < Len(uploaded_files[s]) /\ s \in DOMAIN processing_sessions
    THEN "process" ELSE "update_check"

LoopEvents(s, i) ==
    IF i < Len(uploaded_files[s]) /\ s \in DOMAIN processing_sessions
    THEN <<ProgressEvent(Percent(i, Len(uploaded_files[s])))>> ELSE <<>>

\* Mutant: the loop passes over the file at index i.
ToLoopSkipsFile(s, i, evs) ==
    /\ idx' = [idx EXCEPT ![s] = i + 1]
    /\ pc' = [pc EXCEPT ![s] = LoopPc(s, i + 1)]
    /\ events' = [events EXCEPT ![s] = @ \o evs \o LoopEvents(s, i + 1)]

\* The Runner of s emits evs and comes to the head of the loop with index i.
ToLoop(s, i, evs) ==
    /\ idx' = [idx EXCEPT ![s] = i]
    /\ pc' = [pc EXCEPT ![s] = LoopPc(s, i)]
    /\ events' = [events EXCEPT ![s] = @ \o evs \o LoopEvents(s, i)]

\* The _save_metadata call that ends register_session, add_completed_file and
\* update_session_status: the label inside the with block, and where the
\* caller goes on afterwards.
InSave(l) ==
    CASE l = "register_save" -> "register_close"
      [] l = "add_save" -> "add_close"
      [] l = "update_save" -> "update_close"

SessionSaveOpen(s) ==
    /\ pc[s] \in {"register_save", "add_save", "update_save"}
    /\ SaveOpen(s)
    /\ Goto(s, InSave(pc[s]))
    /\ UNCHANGED <<now, metadata, processing_sessions, uploads, output, events,
                   idx, sweep, nsweeps, nfail, uploaded_files,
                   calls, settings, adjusted>>

SessionSaveClose(s) ==
    /\ pc[s] \in {"register_close", "add_close", "update_close"}
    /\ SaveClose(s)
    /\ CASE pc[s] = "register_close" -> Goto(s, "start") /\ UNCHANGED <<idx, events>>
         [] pc[s] = "update_close" -> Goto(s, "final") /\ UNCHANGED <<idx, events>>
         [] pc[s] = "add_close" -> ToLoop(s, idx[s] + 1, <<>>)
    /\ UNCHANGED <<now, metadata, processing_sessions, uploads, output,
                   sweep, nsweeps, nfail, uploaded_files,
                   calls, settings, adjusted>>

\* upload_files: processing_sessions[session_id] = session_data; thread.start().
StartRunner(s) ==
    /\ pc[s] = "start"
    /\ processing_sessions' =
           processing_sessions @@ (s :> SessionData(s, uploaded_files[s], settings[s]))
    /\ Goto(s, "run")
    /\ UNCHANGED <<now, metadata, disk, buf, uploads, output, events, idx,
                   sweep, nsweeps, nfail, uploaded_files,
                   calls, settings, adjusted>>

\* session = processing_sessions.get(session_id); the pipeline is constructed;
\* the loop is entered.  A constructor that raises lands in the function's
\* except clause, which emits an error event and returns.
RunnerBegin(s) ==
    /\ pc[s] = "run"
    /\ UNCHANGED processing_sessions
    /\ IF s \notin DOMAIN processing_sessions
       THEN Goto(s, "done") /\ UNCHANGED <<events, idx>>
       ELSE \E r \in PipelineInitResults :
              IF r = "ok"
              THEN ToLoop(s, 0, <<>>)
              ELSE Goto(s, "done") /\ Emit(s, ErrorEvent) /\ UNCHANGED idx
    /\ UNCHANGED <<now, metadata, disk, buf, uploads, output, sweep, nsweeps,
                   nfail, uploaded_files, calls, settings, adjusted>>

\* TextExtractor.extract_text returns the regions of an image it could read,
\* no region, or [] from its except clause (cv2.imread returned None or
\* readtext raised).
ExtractTextResults == {"regions", "none", "failed"}
\* Mutant: a result without regions passes for a list of regions.
ExtractedTextsNeverEmpty(det) == "regions"

\* What extract_text hands to its caller.
ExtractedTexts(det) == IF det = "regions" THEN "regions" ELSE "[]"

Call(stage, result) == [stage |-> stage, result |-> result]
\* process_single_image starts on a file with the calls cs.
FirstCalls(s, cs) == calls' = [calls EXCEPT ![s] = Append(@, cs)]
\* process_single_image goes on with the same file with the calls cs.
MoreCalls(s, cs) == calls' = [calls EXCEPT ![s][Len(calls[s])] = @ \o cs]

\* pipeline.process_single_image up to the second progress event, with the
\* Detector's outcome det: extract_text, return False when it gave no region;
\* translate_texts, which returns or raises into the except clause (error
\* event, return False).
ProcessSingleImage(s, det) ==
    /\ pc[s] = "process"
    /\ LET name == uploaded_files[s][idx[s] + 1]
           readable == s \in DOMAIN uploads /\ name \in uploads[s].files
       IN  /\ det # "failed" => readable
           /\ IF ExtractedTexts(det) = "[]"
              THEN /\ ToLoop(s, idx[s] + 1, <<>>)
                   /\ FirstCalls(s, <<Call("extract_text", ExtractedTexts(det))>>)
              ELSE \E tr \in TranslateTextsResults :
                     /\ FirstCalls(s, <<Call("extract_text", ExtractedTexts(det)),
                                        Call("translate_texts", tr)>>)
                     /\ IF tr = "raises"
                        THEN ToLoop(s, idx[s] + 1,
                                    <<ProgressEvent(25), ErrorEvent>>)
                        ELSE /\ Goto(s, "imread")
                             /\ events' = [events EXCEPT ![s] =
                                    @ \o <<ProgressEvent(25), ProgressEvent(50)>>]
                             /\ UNCHANGED idx
    /\ UNCHANGED <<now, metadata, disk, buf, processing_sessions, uploads,
                   output, sweep, nsweeps, nfail, uploaded_files, settings,
                   adjusted>>

\* pipeline.process_single_image from cv2.imread on, and the lines after it up
\* to the test os.path.exists(output_path).  cv2.imread returns None for a
\* file that is not there: return False.  remove_text and batch_render_text
\* catch their own exceptions and return an image; cv2.imwrite writes the
\* file when the directory is there and raises nothing when it is not.
ProcessSingleImageWrite(s) ==
    /\ pc[s] = "imread"
    /\ LET name == uploaded_files[s][idx[s] + 1]
           readable == s \in DOMAIN uploads /\ name \in uploads[s].files
           written == s \in DOMAIN output
           evs == <<ProgressEvent(75), ProgressEvent(100)>>
       IN  IF ~readable
           THEN /\ ToLoop(s, idx[s] + 1, <<>>)
                /\ MoreCalls(s, <<Call("imread", "None")>>)
                /\ UNCHANGED <<output, processing_sessions>>
           ELSE /\ processing_sessions' =
                      [processing_sessions EXCEPT ![s].completed = @ + 1]
                /\ MoreCalls(s, <<Call("imread", "image"),
                                  Call("remove_text", "returns"),
                                  Call("batch_render_text", "returns"),
                                  Call("imwrite", IF written THEN "written"
                                                  ELSE "not written")>>)
                /\ IF written
                   THEN /\ output' = [output EXCEPT ![s] =
                               Touched(@, now, {TranslatedName(name)})]
                        /\ Goto(s, "add_check")
                        /\ events' = [events EXCEPT ![s] = @ \o evs]
                        /\ UNCHANGED idx
                   ELSE /\ ToLoop(s, idx[s] + 1, evs)
                        /\ UNCHANGED output
    /\ UNCHANGED <<now, metadata, disk, buf, uploads, sweep, nsweeps, nfail,
                   uploaded_files, settings, adjusted>>

\* Mutant: no membership test before the subscript.
AddCompletedFileNoCheck(s) ==
    /\ pc[s] = "add_check"
    /\ Goto(s, "add_append")
    /\ UNCHANGED <<now, metadata, disk, buf, processing_sessions, uploads,
                   output, events, idx, sweep, nsweeps, nfail, uploaded_files,
                   calls, settings, adjusted>>

\* FileManager.add_completed_file: if session_id in self.metadata.
AddCompletedFileCheck(s) ==
    /\ pc[s] = "add_check"
    /\ UNCHANGED processing_sessions
    /\ IF Has(metadata, s)
       THEN Goto(s, "add_append") /\ UNCHANGED <<idx, events>>
       ELSE ToLoop(s, idx[s] + 1, <<>>)
    /\ UNCHANGED <<now, metadata, disk, buf, uploads, output, sweep, nsweeps,
                   nfail, uploaded_files, calls, settings, adjusted>>

\* Mutant: the entry is put in front of the list.
PrependCompletedFile(m, s, n) ==
    SetItem(m, s, [Get(m, s) EXCEPT !.completed_files =
                       <<CompletedFile(s, n)>> \o @])

\* Mutant: the entry is appended twice.
AppendCompletedFileTwice(m, s, n) ==
    SetItem(m, s, [Get(m, s) EXCEPT !.completed_files =
                       Append(Append(@, CompletedFile(s, n)), CompletedFile(s, n))])

\* self.metadata[session_id]['completed_files'].append(completed_file).
AppendCompletedFile(m, s, n) ==
    SetItem(m, s, [Get(m, s) EXCEPT !.completed_files =
                       Append(@, CompletedFile(s, n))])

\* A KeyError, when the record has gone since the membership test, ends the
\* Runner in its except clause.
AddCompletedFileAppend(s) ==
    /\ pc[s] = "add_append"
    /\ IF Has(metadata, s)
       THEN /\ metadata' = AppendCompletedFile(metadata, s,
                               uploaded_files[s][idx[s] + 1])
            /\ Goto(s, "add_save")
            /\ UNCHANGED events
       ELSE /\ Emit(s, ErrorEvent)
            /\ Goto(s, "done")
            /\ UNCHANGED metadata
    /\ UNCHANGED <<now, disk, buf, processing_sessions, uploads, output, idx,
                   sweep, nsweeps, nfail, uploaded_files,
                   calls, settings, adjusted>>

\* FileManager.update_session_status(session_id, 'completed'): the membership test.
UpdateSessionStatusCheck(s) ==
    /\ pc[s] = "update_check"
    /\ Goto(s, IF Has(metadata, s) THEN "update_set" ELSE "final")
    /\ UNCHANGED <<now, metadata, disk, buf, processing_sessions, uploads,
                   output, events, idx, sweep, nsweeps, nfail, uploaded_files,
                   calls, settings, adjusted>>

\* Mutant: the status of every record is set.
SetStatusOfAll(m, s, st) == [k \in 1..Len(m) |-> [m[k] EXCEPT !.status = st]]

SetStatus(m, s, st) == SetItem(m, s, [Get(m, s) EXCEPT !.status = st])

\* self.metadata[session_id]['status'] = status.
UpdateSessionStatusSet(s) ==
    /\ pc[s] = "update_set"
    /\ IF Has(metadata, s)
       THEN /\ metadata' = SetStatus(metadata, s, "completed")
            /\ Goto(s, "update_save")
            /\ UNCHANGED events
       ELSE /\ Emit(s, ErrorEvent)
            /\ Goto(s, "done")
            /\ UNCHANGED metadata
    /\ UNCHANGED <<now, disk, buf, processing_sessions, uploads, output, idx,
                   sweep, nsweeps, nfail, uploaded_files,
                   calls, settings, adjusted>>

\* get_session_info and the processing_complete event.
RunnerFinish(s) ==
    /\ pc[s] = "final"
    /\ LET session == processing_sessions[s]
           download_links == IF Has(metadata, s)
                             THEN Get(metadata, s).completed_files ELSE <<>>
       IN  events' = [events EXCEPT ![s] =
               @ \o FinalEvents(session.completed, session.total, download_links)]
    /\ Goto(s, "done")
    /\ UNCHANGED <<now, metadata, disk, buf, processing_sessions, uploads,
                   output, idx, sweep, nsweeps, nfail, uploaded_files,
                   calls, settings, adjusted>>

\* ------------------------------------------------- FileManager.cleanup_old_files
\* Mutant: the save after the loop does not look at dry_run.
SweepGotoSavesAlways(sw, k, deleted) ==
    IF k < Len(sw.sessions_to_delete) THEN "uploads"
    ELSE IF deleted # <<>> THEN "save" ELSE "orphans_uploads"

\* Where the loop over sessions_to_delete goes after k sessions, and after
\* the loop: the save when records were deleted, then the orphan directories.
SweepGoto(sw, k, deleted) ==
    IF k < Len(sw.sessions_to_delete) THEN "uploads"
    ELSE IF ~sw.dry_run /\ deleted # <<>> THEN "save" ELSE "orphans_uploads"

\* Mutant: a session created exactly at the cutoff counts as old.
ExpiredAtCutoff(created_at, cutoff_time) == created_at <= cutoff_time

\* if created_at < cutoff_time
Expired(created_at, cutoff_time) == created_at < cutoff_time

\* The loop that collects sessions_to_delete.
SessionsToDelete(m, cutoff_time) ==
    LET old == SelectSeq(m, LAMBDA r : Expired(r.created_at, cutoff_time))
    IN  [j \in 1..Len(old) |-> old[j].session_id]

\* cutoff_time, the empty result, sessions_to_delete.
SweepStartWithin(dry, limit) ==
    /\ sweep.pc = "idle"
    /\ nsweeps < limit
    /\ LET cutoff_time == now - MaxAgeHours
           sw == [IdleSweep EXCEPT
                     !.dry_run = dry, !.cutoff = cutoff_time,
                     !.sessions_to_delete = SessionsToDelete(metadata, cutoff_time),
                     !.before = [ran |-> nsweeps > 0, dry_run |-> sweep.dry_run,
                                 cutoff |-> sweep.cutoff,
                                 orphan_cutoff |-> sweep.orphan_cutoff,
                                 deleted_sessions |-> sweep.deleted_sessions,
                                 deleted_files |-> sweep.deleted_files,
                                 failures |-> nfail]]
       IN  sweep' = [sw EXCEPT !.pc = SweepGoto(sw, 0, <<>>)]
    /\ nsweeps' = nsweeps + 1
    /\ UNCHANGED <<now, metadata, disk, buf, processing_sessions, uploads,
                   output, events, pc, idx, nfail, uploaded_files,
                   calls, settings, adjusted>>

SweepStart(dry) == SweepStartWithin(dry, MaxSweeps)

CurrentSession(sw) == sw.sessions_to_delete[sw.k + 1]

\* Mutant: the exception leaves the loop, and cleanup_old_files returns.
SweepSessionErrorAborts(sw) ==
    [sw EXCEPT !.errors = Append(@, sw.sessions_to_delete[sw.k + 1]), !.pc = "idle"]

\* The except clause of the per-session try: the error is recorded and the
\* loop goes on with the next session.
SweepSessionError(sw) ==
    [sw EXCEPT !.errors = Append(@, CurrentSession(sw)), !.k = @ + 1,
               !.pc = SweepGoto(sw, sw.k + 1, sw.deleted_sessions)]

\* One session directory of the current session: shutil.rmtree when it exists
\* and this is no dry run, then _get_dir_size of the path just removed.
\* rmtree may raise.
SweepSessionDir(tree, label, next) ==
    /\ sweep.pc = label
    /\ LET session_id == CurrentSession(sweep) IN
       IF session_id \in DOMAIN tree /\ ~sweep.dry_run
       THEN \/ /\ tree' = Remove(tree, session_id)
               /\ sweep' = [sweep EXCEPT
                      !.freed_space = @ + GetDirSize(tree', session_id),
                      !.pc = next]
               /\ UNCHANGED nfail
            \/ /\ nfail < MaxRmFailures
               /\ nfail' = nfail + 1
               /\ sweep' = SweepSessionError(sweep)
               /\ UNCHANGED tree
       ELSE /\ sweep' = [sweep EXCEPT !.pc = next]
            /\ UNCHANGED <<tree, nfail>>

SweepUploads ==
    /\ SweepSessionDir(uploads, "uploads", "output")
    /\ UNCHANGED <<now, metadata, disk, buf, processing_sessions, output,
                   events, pc, idx, nsweeps, uploaded_files,
                   calls, settings, adjusted>>

SweepOutput ==
    /\ SweepSessionDir(output, "output", "delete")
    /\ UNCHANGED <<now, metadata, disk, buf, processing_sessions, uploads,
                   events, pc, idx, nsweeps, uploaded_files,
                   calls, settings, adjusted>>

\* result['deleted_sessions'].append(session_id); del self.metadata[session_id].
SweepDelete ==
    /\ sweep.pc = "delete"
    /\ LET session_id == CurrentSession(sweep)
           deleted == Append(sweep.deleted_sessions, session_id)
       IN  /\ sweep' = [sweep EXCEPT !.deleted_sessions = deleted, !.k = @ + 1,
                                     !.pc = SweepGoto(sweep, sweep.k + 1, deleted)]
           /\ metadata' = IF sweep.dry_run THEN metadata
                          ELSE DelItem(metadata, session_id)
    /\ UNCHANGED <<now, disk, buf, processing_sessions, uploads, output, events,
                   pc, idx, nsweeps, nfail, uploaded_files,
                   calls, settings, adjusted>>

\* if not dry_run and result['deleted_sessions']: self._save_metadata()
SweepSaveOpen ==
    /\ sweep.pc = "save"
    /\ SaveOpen(SweepThread)
    /\ sweep' = [sweep EXCEPT !.pc = "save_close"]
    /\ UNCHANGED <<now, metadata, processing_sessions, uploads, output, events,
                   pc, idx, nsweeps, nfail, uploaded_files,
                   calls, settings, adjusted>>

SweepSaveClose ==
    /\ sweep.pc = "save_close"
    /\ SaveClose(SweepThread)
    /\ sweep' = [sweep EXCEPT !.pc = "orphans_uploads"]
    /\ UNCHANGED <<now, metadata, processing_sessions, uploads, output, events,
                   pc, idx, nsweeps, nfail, uploaded_files,
                   calls, settings, adjusted>>

\* ------------------------------------ FileManager._cleanup_orphaned_directories
\* Mutant: a directory last changed exactly at the cutoff counts as old.
OrphansAtCutoff(tree, cutoff_time) ==
    {d \in DOMAIN tree : ~Has(metadata, d) /\ tree[d].ctime <= cutoff_time}

\* The directories of a root that the loop removes: not a key of metadata and
\* os.path.getctime before the cutoff that _cleanup_orphaned_directories
\* computed on entry.
Orphans(tree, cutoff_time) ==
    {d \in DOMAIN tree : ~Has(metadata, d) /\ tree[d].ctime < cutoff_time}

\* One root.  An rmtree that raises is logged and the loop goes on.
SweepOrphans(tree, root, label, next, cutoff_time) ==
    /\ sweep.pc = label
    /\ IF sweep.dry_run
       THEN /\ sweep' = [sweep EXCEPT !.pc = next, !.orphan_cutoff = cutoff_time]
            /\ UNCHANGED <<tree, nfail>>
       ELSE \E failed \in SUBSET Orphans(tree, cutoff_time) :
              LET removed == Orphans(tree, cutoff_time) \ failed IN
              /\ nfail + Cardinality(failed) <= MaxRmFailures
              /\ nfail' = nfail + Cardinality(failed)
              /\ tree' = [d \in DOMAIN tree \ removed |-> tree[d]]
              /\ sweep' = [sweep EXCEPT
                     !.deleted_files = @ \cup {<<root, d>> : d \in removed},
                     !.pc = next, !.orphan_cutoff = cutoff_time]

SweepOrphansUploads ==
    /\ SweepOrphans(uploads, "uploads", "orphans_uploads", "orphans_output",
                    now - MaxAgeHours)
    /\ UNCHANGED <<now, metadata, disk, buf, processing_sessions, output,
                   events, pc, idx, nsweeps, uploaded_files,
                   calls, settings, adjusted>>

\* The second root; cleanup_old_files then returns result.
SweepOrphansOutput ==
    /\ SweepOrphans(output, "output", "orphans_output", "idle",
                    sweep.orphan_cutoff)
    /\ UNCHANGED <<now, metadata, disk, buf, processing_sessions, uploads,
                   events, pc, idx, nsweeps, uploaded_files,
                   calls, settings, adjusted>>

\* The steps of a sweep after its start.
SweepRun ==
    \/ SweepUploads
    \/ SweepOutput
    \/ SweepDelete
    \/ SweepSaveOpen
    \/ SweepSaveClose
    \/ SweepOrphansUploads
    \/ SweepOrphansOutput

SweepStep ==
    \/ \E dry \in BOOLEAN : SweepStart(dry)
    \/ SweepRun

SessionStep(s) ==
    \/ \E req \in Requests : UploadFiles(s, req, NoOcrLanguages)
    \/ RegisterSession(s)
    \/ SessionSaveOpen(s)
    \/ SessionSaveClose(s)
    \/ StartRunner(s)
    \/ RunnerBegin(s)
    \/ \E det \in ExtractTextResults : ProcessSingleImage(s, det)
    \/ ProcessSingleImageWrite(s)
    \/ AddCompletedFileCheck(s)
    \/ AddCompletedFileAppend(s)
    \/ UpdateSessionStatusCheck(s)
    \/ UpdateSessionStatusSet(s)
    \/ RunnerFinish(s)

\* A run of the server in which cleanup_old_files is called while the clock
\* advances and uploads come in.
Next ==
    \/ Tick
    \/ SweepStep
    \/ \E s \in 1..MaxSweptSessions : SessionStep(s)

Spec == Init /\ [][Next]_vars

\* A run with concurrent uploads and their Runners, and no sweep.
NextRunners == \E s \in SessionIds : SessionStep(s)

SpecRunners == Init /\ [][NextRunners]_vars

\* A run in which cleanup_old_files is called again and again while the
\* clock advances, with no upload.
NextSweeps ==
    \/ TickWithin(MaxSuccessiveSweeps)
    \/ \E dry \in BOOLEAN : SweepStartWithin(dry, MaxSuccessiveSweeps)
    \/ SweepRun

SpecSweeps == Init /\ [][NextSweeps]_vars

\* ------------------------------------------------- FileManager, called directly
\* One caller at a time calls the three mutating methods of FileManager with
\* any session id, present or not; each call runs to its return.
CallIds == PrevId..MaxCallId

\* _save_metadata, from open to close with no other writer.
SaveAll(m) == FlushResults(Truncated, Dump(m))

\* FileManager.register_session(session_id, files, settings)
RegisterSessionCall(s, fl) ==
    /\ metadata' = SetItem(metadata, s, NewRecord(s, fl, NoSettings, now))
    /\ disk' \in SaveAll(metadata')
    /\ UNCHANGED <<now, buf, processing_sessions, uploads, output, events, pc,
                   idx, sweep, nsweeps, nfail, uploaded_files,
                   calls, settings, adjusted>>

\* FileManager.update_session_status(session_id, status)
UpdateSessionStatusCall(s, st) ==
    /\ IF Has(metadata, s)
       THEN /\ metadata' = SetStatus(metadata, s, st)
            /\ disk' \in SaveAll(metadata')
       ELSE UNCHANGED <<metadata, disk>>
    /\ UNCHANGED <<now, buf, processing_sessions, uploads, output, events, pc,
                   idx, sweep, nsweeps, nfail, uploaded_files,
                   calls, settings, adjusted>>

\* FileManager.add_completed_file(session_id, original_name, output_path)
AddCompletedFileCall(s, n) ==
    /\ Has(metadata, s) => Len(Get(metadata, s).completed_files) < MaxCompleted
    /\ IF Has(metadata, s)
       THEN /\ metadata' = AppendCompletedFile(metadata, s, n)
            /\ disk' \in SaveAll(metadata')
       ELSE UNCHANGED <<metadata, disk>>
    /\ UNCHANGED <<now, buf, processing_sessions, uploads, output, events, pc,
                   idx, sweep, nsweeps, nfail, uploaded_files,
                   calls, settings, adjusted>>

NextStore ==
    \/ \E s \in CallIds : \E fl \in FileLists : RegisterSessionCall(s, fl)
    \/ \E s \in CallIds : UpdateSessionStatusCall(s, "completed")
    \/ \E s \in CallIds : \E n \in FileNames : AddCompletedFileCall(s, n)

SpecStore == Init /\ [][NextStore]_vars

\* ------------------------------------------------- app.py run as a script
\* The call file_manager.cleanup_old_files() of the __main__ block.
StartupSweep == SweepStartWithin(FALSE, 1)

\* Mutant: the server takes requests from the start of the process.
ServingFromStart == TRUE

\* socketio.run(app, ...) has been reached: the statement after the startup
\* sweep of the __main__ block.
Serving == nsweeps = 1 /\ sweep.pc = "idle"

\* The process from its start: the startup sweep, then the server with its
\* request handlers and Runners; cleanup_old_files has no other caller.
NextServer ==
    \/ Tick
    \/ StartupSweep
    \/ SweepRun
    \/ \E s \in 1..MaxSweptSessions : Serving /\ SessionStep(s)

SpecServer == Init /\ [][NextServer]_vars

\* ------------------------------------------------- the OCR languages of a session
\* adjust_ocr_languages(languages), called directly.
AdjustOcrLanguagesCall(languages) ==
    /\ adjusted' = [called |-> TRUE, languages |-> languages,
                    result |-> AdjustOcrLanguages(languages)]
    /\ UNCHANGED <<now, metadata, disk, buf, processing_sessions, uploads,
                   output, events, pc, idx, sweep, nsweeps, nfail,
                   uploaded_files, settings, calls>>

\* upload_files with any ocr_languages form value, up to the start of the
\* Runner, and direct calls of adjust_ocr_languages with any list of codes.
NextLanguages ==
    \/ \E l \in LanguageLists : AdjustOcrLanguagesCall(l)
    \/ \E s \in 1..MaxSweptSessions :
          \/ \E req \in Requests : \E form \in Forms : UploadFiles(s, req, form)
          \/ RegisterSession(s)
          \/ SessionSaveOpen(s)
          \/ SessionSaveClose(s)
          \/ StartRunner(s)

SpecLanguages == Init /\ [][NextLanguages]_vars
\* ================================================================ claims
Kinds(s) == [j \in 1..Len(events[s]) |-> events[s][j].kind]
Count(q, x) == Cardinality({j \in 1..Len(q) : q[j] = x})
Records(m) == Range(m)

\* C1: in every reachable state, every session record of the Store, in memory
\* and in every readable persisted document, has at most as many
\* completed_files as files.
C1_CompletedAtMostFiles ==
    \A r \in Records(metadata) \cup Records(LoadMetadata(disk)) :
        Len(r.completed_files) <= Len(r.files)

\* A session of this run has completed every one of its MaxFiles files while a
\* sweep had been started.
C1_Witness ==
    \E r \in Records(metadata) :
        /\ r.session_id \in SessionIds
        /\ Len(r.files) = MaxFiles
        /\ Len(r.completed_files) = Len(r.files)
        /\ nsweeps > 0
ProgressCount(ev) == Cardinality({j \in 1..Len(ev) : ev[j].kind = "progress"})

\* C2: once a session's status is completed, no step changes its record (a
\* sweep may remove it) and no further progress event of the session is
\* emitted.
C2_CompletedIsTerminal ==
    [][\A s \in AllIds :
         (Has(metadata, s) /\ Get(metadata, s).status = "completed") =>
            /\ Has(metadata', s) => Get(metadata', s) = Get(metadata, s)
            /\ s \in SessionIds =>
                  ProgressCount(events'[s]) = ProgressCount(events[s])]_vars

\* A Runner has emitted progress events, marked its session completed, emitted
\* processing_complete and returned.
C2_Witness ==
    \E s \in SessionIds :
        /\ pc[s] = "done"
        /\ Has(metadata, s)
        /\ Get(metadata, s).status = "completed"
        /\ ProgressCount(events[s]) > 0
        /\ Count(Kinds(s), "processing_complete") = 1

\* C3 (the claim as a final result): a Runner that has returned has emitted
\* processing_complete, and its session, if still in the Store, is completed.
C3_ReturnedRunnerCompleted ==
    \A s \in SessionIds :
        pc[s] = "done" =>
            /\ Count(Kinds(s), "processing_complete") = 1
            /\ Has(metadata, s) => Get(metadata, s).status = "completed"

\* C4: in every session's event sequence processing_complete occurs at most
\* once, and only as the last event.
C4_CompleteIsLast ==
    \A s \in SessionIds :
        \A j \in 1..Len(events[s]) :
            events[s][j].kind = "processing_complete" => j = Len(events[s])

\* A session whose events hold progress events, an error event and then the
\* terminal event.
C4_Witness ==
    \E s \in SessionIds :
        /\ Len(events[s]) > 0
        /\ events[s][Len(events[s])].kind = "processing_complete"
        /\ Count(Kinds(s), "error") > 0
        /\ Count(Kinds(s), "progress") > 1

RECURSIVE IsSubseq(_, _)
IsSubseq(a, b) ==
    IF a = <<>> THEN TRUE
    ELSE IF b = <<>> THEN FALSE
    ELSE IF a[1] = b[1] THEN IsSubseq(Tail(a), Tail(b))
    ELSE IsSubseq(a, Tail(b))

OriginalNames(r) ==
    [j \in 1..Len(r.completed_files) |-> r.completed_files[j].original_name]

RunnerFinished(s) ==
    pc[s] = "done" /\ Count(Kinds(s), "processing_complete") = 1

NotOlder(s) ==
    Has(metadata, s) /\ Get(metadata, s).created_at >= sweep.cutoff

SameDir(tree, tree2, s) ==
    s \in DOMAIN tree => (s \in DOMAIN tree2 /\ tree2[s] = tree[s])

SweepSteps == sweep.pc # "idle" /\ sweep' # sweep

InSection(s) ==
    pc[s] \in {"register_save", "register_close", "add_append", "add_save",
               "add_close", "update_set", "update_save", "update_close"}

SweepInSection ==
    ~sweep.dry_run /\ sweep.pc \in {"uploads", "output", "delete", "save", "save_close"}

ErrorCount(ev) == Cardinality({j \in 1..Len(ev) : ev[j].kind = "error"})

\* C9: the per-file check lets the Runner start a file only when the session's
\* record is in the Store, and with the record gone the calls after a file
\* emit no error event.
C9_RunnerStopsOnRemoval ==
    [][\A s \in SessionIds :
         /\ (pc'[s] = "process" /\ (pc[s] # "process" \/ idx'[s] # idx[s])) =>
               Has(metadata', s)
         /\ (~Has(metadata, s) /\ pc[s] \in {"add_check", "add_append",
                 "update_check", "update_set", "final"}) =>
               ErrorCount(events'[s]) = ErrorCount(events[s])]_vars

\* What a sweep sw that deleted without failure leaves: no record older than
\* its cutoff, and no record or directory of a session it set out to delete.
SweptAll(sw, m, up, out) ==
    /\ \A r \in Records(m) : ~(r.created_at < sw.cutoff)
    /\ \A j \in 1..Len(sw.sessions_to_delete) :
          LET id == sw.sessions_to_delete[j]
          IN  ~Has(m, id) /\ id \notin DOMAIN up /\ id \notin DOMAIN out
    /\ sw.deleted_sessions = sw.sessions_to_delete

\* C10: a non-dry-run sweep without deletion failure returns with the record
\* and both directories of every session with created_at < cutoff removed, and
\* none of its steps changes the record or a directory of a session with
\* created_at >= cutoff.
C10_SweepRemovesExactlyOlder ==
    [][SweepSteps =>
         /\ \A s \in AllIds : NotOlder(s) =>
               /\ Has(metadata', s) /\ Get(metadata', s) = Get(metadata, s)
               /\ SameDir(uploads, uploads', s) /\ SameDir(output, output', s)
         /\ (sweep'.pc = "idle" /\ ~sweep.dry_run /\ sweep'.errors = <<>>) =>
               SweptAll(sweep', metadata', uploads', output')]_vars

\* A sweep has returned after deleting the older session and its directories,
\* next to a session at or after the cutoff that keeps record and directories.
C10_Witness ==
    /\ sweep.pc = "idle" /\ ~sweep.dry_run /\ sweep.errors = <<>>
    /\ sweep.deleted_sessions = <<PrevId>>
    /\ PrevId \notin DOMAIN uploads \cup DOMAIN output
    /\ \E s \in SessionIds :
          /\ NotOlder(s) /\ s \in DOMAIN uploads /\ s \in DOMAIN output
          /\ pc[s] = "done"

\* A non-dry-run pass of _cleanup_orphaned_directories over one root, from
\* label to next, in which no rmtree raised.
OrphanPass(label, next) ==
    /\ sweep.pc = label /\ sweep'.pc = next
    /\ ~sweep.dry_run /\ nfail' = nfail

\* The directories of a root whose name is no current Session id and that
\* were created before the cutoff.
CreatedBefore(tree, cutoff_time) ==
    {d \in DOMAIN tree : ~Has(metadata, d) /\ tree[d].created < cutoff_time}

\* C11: a non-dry-run orphan pass removes from each root exactly the
\* directories whose name is no current Session id and whose creation time is
\* older than the cutoff; the others, and every directory named by a current
\* Session id, stay.
C11_OrphansByCreationTime ==
    [][/\ OrphanPass("orphans_uploads", "orphans_output") =>
             DOMAIN uploads \ DOMAIN uploads' =
                 CreatedBefore(uploads, sweep'.orphan_cutoff)
       /\ OrphanPass("orphans_output", "idle") =>
             DOMAIN output \ DOMAIN output' =
                 CreatedBefore(output, sweep'.orphan_cutoff)]_vars

\* A step of a sweep (its start included) that follows an earlier non-dry-run
\* sweep.
AfterSweepStep ==
    sweep' # sweep /\ sweep'.before.ran /\ ~sweep'.before.dry_run

\* Nothing that this sweep finds old was young for the sweep before: at its
\* start no record, and after a scan that found no session, in the orphan
\* passes, no directory.
NothingNewlyExpirable ==
    IF sweep.pc = "idle"
    THEN \A r \in Records(metadata) :
            r.created_at < sweep'.cutoff => r.created_at < sweep'.before.cutoff
    ELSE /\ sweep.sessions_to_delete = <<>>
         /\ \A tree \in {uploads, output} : \A d \in DOMAIN tree :
                tree[d].ctime < sweep'.orphan_cutoff =>
                    tree[d].ctime < sweep'.before.orphan_cutoff

\* The report of the sweep sw.
ReportOf(sw) ==
    <<sw.deleted_sessions, sw.deleted_files, sw.freed_space, sw.errors>>

\* The step changes neither the Store nor a directory, finds no session to
\* delete and adds nothing to the report, which starts empty.
SweepNoOp ==
    /\ UNCHANGED <<metadata, disk, uploads, output>>
    /\ sweep'.sessions_to_delete = <<>>
    /\ ReportOf(sweep') =
           IF sweep.pc = "idle" THEN ReportOf(IdleSweep) ELSE ReportOf(sweep)

RECURSIVE SizeOf(_, _)
\* The sizes of the directories ds of a tree, added up.
SizeOf(tree, ds) ==
    IF ds = {} THEN 0
    ELSE LET d == CHOOSE x \in ds : TRUE
         IN  GetDirSize(tree, d) + SizeOf(tree, ds \ {d})

\* C13: every step of a sweep adds to the report's freed byte count the sizes,
\* as they were before the step, of the directories the step deleted.
C13_FreedIsDeletedSize ==
    [][SweepSteps =>
         sweep'.freed_space = sweep.freed_space
             + SizeOf(uploads, DOMAIN uploads \ DOMAIN uploads')
             + SizeOf(output, DOMAIN output \ DOMAIN output')]_vars

\* C14: no step of a sweep called with dry_run = true, from its start to its
\* return, changes the in-memory store, the persisted document or a directory
\* under the uploads and output roots.
C14_DryRunTakesNoAction ==
    [][(sweep' # sweep /\ sweep'.dry_run) =>
          UNCHANGED <<metadata, disk, uploads, output>>]_vars

\* A dry-run sweep has returned with an old session in its report; the
\* session's record, in memory and persisted, and its directories are there.
C14_Witness ==
    /\ sweep.pc = "idle" /\ nsweeps > 0 /\ sweep.dry_run
    /\ sweep.deleted_sessions = <<PrevId>>
    /\ Has(metadata, PrevId) /\ Has(LoadMetadata(disk), PrevId)
    /\ PrevId \in DOMAIN uploads /\ PrevId \in DOMAIN output

\* A non-dry-run sweep without rmtree failure has returned; the call before it
\* was a dry run with the same cutoffs.
AfterDryRun ==
    /\ sweep.pc = "idle" /\ sweep.before.ran
    /\ sweep.before.dry_run /\ ~sweep.dry_run
    /\ sweep.cutoff = sweep.before.cutoff
    /\ sweep.orphan_cutoff = sweep.before.orphan_cutoff
    /\ nfail = 0

\* C15: the session ids and the orphan directory paths in the report of a dry
\* run are those that a non-dry-run sweep from the same state and time deletes
\* and lists.
C15_DryRunReportsIntent ==
    AfterDryRun =>
        /\ Range(sweep.before.deleted_sessions) = Range(sweep.deleted_sessions)
        /\ sweep.before.deleted_files = sweep.deleted_files

\* The directories of a root that an orphan pass with this cutoff has to remove.
ExpiredOrphans(tree, cutoff_time) ==
    {d \in DOMAIN tree : ~Has(metadata, d) /\ tree[d].ctime < cutoff_time}

\* C16: a step of a sweep in which an rmtree raised goes on to the next
\* session or to the next phase of the sweep; an orphan pass removes every
\* expired orphan directory of its root except those whose rmtree raised; and
\* when the sweep returns, every session it found old has been deleted or has
\* its failure recorded.
C16_FailureDoesNotAbort ==
    [][SweepSteps =>
         /\ nfail' > nfail =>
               sweep'.pc \in {"uploads", "save", "orphans_uploads", "orphans_output"}
               \/ (sweep.pc = "orphans_output" /\ sweep'.pc = "idle")
         /\ (sweep.pc = "orphans_uploads" /\ ~sweep.dry_run) =>
               Cardinality(ExpiredOrphans(uploads, sweep'.orphan_cutoff)
                               \cap DOMAIN uploads') = nfail' - nfail
         /\ (sweep.pc = "orphans_output" /\ ~sweep.dry_run) =>
               Cardinality(ExpiredOrphans(output, sweep'.orphan_cutoff)
                               \cap DOMAIN output') = nfail' - nfail
         /\ sweep'.pc = "idle" =>
               Range(sweep'.sessions_to_delete) =
                   Range(sweep'.deleted_sessions) \cup Range(sweep'.errors)]_vars

\* A sweep found two old sessions, met an rmtree failure at the first one,
\* deleted the second one and has returned.
C16_Witness ==
    /\ sweep.pc = "idle" /\ nsweeps > 0 /\ ~sweep.dry_run
    /\ Len(sweep.sessions_to_delete) = 2
    /\ sweep.errors = <<sweep.sessions_to_delete[1]>>
    /\ sweep.deleted_sessions = <<sweep.sessions_to_delete[2]>>
    /\ ~Has(metadata, sweep.sessions_to_delete[2])

\* C17: every step of a sweep adds one entry to the errors list of its report
\* for each rmtree that raised in the step.
C17_FailuresAreReported ==
    [][SweepSteps =>
         Len(sweep'.errors) - Len(sweep.errors) = nfail' - nfail]_vars

\* C18: a call of register with an id that is in the Store leaves the record
\* of that id as it was (the call fails with DuplicateID).
C18_RegisterKeepsExistingRecord ==
    [][\A s \in CallIds : \A fl \in FileLists :
         (RegisterSessionCall(s, fl) /\ Has(metadata, s)) =>
             Get(metadata', s) = Get(metadata, s)]_vars

\* The Runner of s is at the membership test of add_completed_file or of
\* update_session_status and the Store holds no record of s.
CalledWithAbsentId(s) ==
    pc[s] \in {"add_check", "update_check"} /\ ~Has(metadata, s)

\* C19: add_completed_file and update_session_status, called with an id that
\* the Store does not hold, return to the caller without an error event and
\* leave the Store and the persisted document as they were.
C19_AbsentIdIsNoOp ==
    [][\A s \in SessionIds :
         (CalledWithAbsentId(s) /\ pc'[s] # pc[s]) =>
             /\ pc'[s] \in {"process", "update_check", "final"}
             /\ ErrorCount(events'[s]) = ErrorCount(events[s])
             /\ metadata' = metadata
             /\ disk' = disk]_vars

\* A Runner whose every file was translated and written has passed both calls
\* with its record deleted by a sweep, and no error event was emitted.
C19_Witness ==
    \E s \in SessionIds :
        /\ pc[s] = "final"
        /\ uploaded_files[s] # <<>>
        /\ s \in DOMAIN processing_sessions
        /\ processing_sessions[s].completed = Len(uploaded_files[s])
        /\ ~Has(metadata, s)
        /\ \E j \in 1..Len(sweep.deleted_sessions) : sweep.deleted_sessions[j] = s
        /\ ErrorCount(events[s]) = 0

\* The Runner of s leaves process_single_image for the file at idx[s] without
\* calling add_completed_file: a stage returned False or raised, or the output
\* file was not written.
FileFails(s) ==
    /\ pc[s] \in {"process", "imread"}
    /\ pc'[s] \notin {"imread", "add_check"}
    /\ pc'[s] # pc[s] \/ idx'[s] # idx[s]

\* C20: when a file of a batch fails, the Store gets no entry for it and the
\* Runner goes on with the next file of the batch, or with the end of the
\* batch after the last file.
C20_FailedFileIsSkipped ==
    [][\A s \in SessionIds :
         FileFails(s) =>
             /\ metadata' = metadata
             /\ idx'[s] = idx[s] + 1
             /\ pc'[s] = IF idx[s] + 1 < Len(uploaded_files[s])
                         THEN "process" ELSE "update_check"]_vars

\* The first file of a batch of two failed with an error event and the second
\* file is the only completed file of the record.
C20_Witness ==
    \E s \in SessionIds :
        /\ uploaded_files[s] = <<"a.png", "b.png">>
        /\ Has(metadata, s)
        /\ OriginalNames(Get(metadata, s)) = <<"b.png">>
        /\ ErrorCount(events[s]) = 1

\* The last call of the file the Runner of s is at, after the step.
LastCall(s) == calls'[s][Len(calls'[s])][Len(calls'[s][Len(calls'[s])])]

\* A step of process_single_image in which a stage failed: the Detector
\* failed, translate_texts raised, or cv2.imread could not read the image.
StageError(s) ==
    \/ ProcessSingleImage(s, "failed")
    \/ /\ pc[s] \in {"process", "imread"}
       /\ calls'[s] # calls[s]
       /\ LastCall(s).result \in {"raises", "None"}

\* C21: a step of the Runner in which a stage failed for a file adds an error
\* event to the events of the session.
C21_StageErrorEmitsError ==
    [][\A s \in SessionIds :
         StageError(s) => ErrorCount(events'[s]) = ErrorCount(events[s]) + 1]_vars

\* C22: the step of the Runner on a file for which the Detector reports no
\* region calls no other stage, emits no error event, adds no completed file,
\* leaves the count of completed files, and comes to the next file or to the
\* end of the batch.
C22_ZeroRegionsSkipsFile ==
    [][\A s \in SessionIds :
         ProcessSingleImage(s, "none") =>
             /\ calls'[s] = Append(calls[s], <<Call("extract_text", "[]")>>)
             /\ ErrorCount(events'[s]) = ErrorCount(events[s])
             /\ metadata' = metadata
             /\ processing_sessions' = processing_sessions
             /\ idx'[s] = idx[s] + 1
             /\ pc'[s] = IF idx[s] + 1 < Len(uploaded_files[s])
                         THEN "process" ELSE "update_check"]_vars

\* The Runner has skipped the first, readable file of a batch of two after the
\* call of the Detector alone and is at the second file.
C22_Witness ==
    \E s \in SessionIds :
        /\ pc[s] = "process" /\ idx[s] = 1
        /\ s \in DOMAIN uploads /\ uploaded_files[s][1] \in uploads[s].files
        /\ calls[s] = <<<<Call("extract_text", "[]")>>>>
        /\ ErrorCount(events[s]) = 0
        /\ processing_sessions[s].completed = 0
        /\ Has(metadata, s) /\ Get(metadata, s).completed_files = <<>>

\* No stage called for a file of s failed in a way its caller saw, and every
\* output file was written.
NoStageFailed(s) ==
    \A j \in 1..Len(calls[s]) : \A k \in 1..Len(calls[s][j]) :
        calls[s][j][k].result \notin {"raises", "None", "not written"}

\* The files of s for which the Detector returned at least one region.
WithRegions(s) ==
    Cardinality({j \in 1..Len(calls[s]) : calls[s][j][1].result = "regions"})

\* C23: when the Runner of a batch in which no stage failed has finished, the
\* session's record, if the Store holds it, has as many completed_files as the
\* batch has files with at least one region, and the terminal event gives that
\* number as completed and the number of files as total.
C23_CompletedCountsFilesWithRegions ==
    \A s \in SessionIds :
        (RunnerFinished(s) /\ NoStageFailed(s)) =>
            /\ Has(metadata, s) =>
                  Len(Get(metadata, s).completed_files) = WithRegions(s)
            /\ \E j \in 1..Len(events[s]) :
                  /\ events[s][j].kind = "processing_complete"
                  /\ events[s][j].completed = WithRegions(s)
                  /\ events[s][j].total = Len(uploaded_files[s])

\* The Runner of a batch of two files has finished without a failed stage; the
\* Detector found regions in one file and the record has one completed file.
C23_Witness ==
    \E s \in SessionIds :
        /\ RunnerFinished(s) /\ NoStageFailed(s)
        /\ Len(uploaded_files[s]) = 2 /\ WithRegions(s) = 1
        /\ Has(metadata, s) /\ Len(Get(metadata, s).completed_files) = 1

\* A request without files, or with a file that allowed_file refuses.
Rejectable(req) ==
    \/ ~req.has_files
    \/ req.files = <<>>
    \/ \E k \in 1..Len(req.files) : ~AllowedFile(req.files[k])

\* C24: the request handler, given a request without files or with a file of
\* a disallowed extension, creates no session: it makes no directory and does
\* not go on to register_session.
C24_BadSubmissionCreatesNoSession ==
    [][\A s \in SessionIds : \A req \in Requests :
         (UploadFiles(s, req, NoOcrLanguages) /\ Rejectable(req)) =>
             UNCHANGED <<uploads, output, pc>>]_vars

\* The stages of process_single_image in the order of the pipeline.
StageOrder ==
    <<"extract_text", "translate_texts", "imread", "remove_text",
      "batch_render_text", "imwrite">>

Stages(cs) == [k \in 1..Len(cs) |-> cs[k].stage]
\* The calls cs are the first stages of the pipeline, in its order.
InStageOrder(cs) ==
    Len(cs) <= Len(StageOrder) /\ Stages(cs) = SubSeq(StageOrder, 1, Len(cs))

CompletedOf(m, s) == IF Has(m, s) THEN Get(m, s).completed_files ELSE <<>>

\* C25: the Runner's index moves one file at a time; the stages of a file are
\* started only at the head of the loop for that file, after the files before
\* it; the stages called for a file are the first stages of the pipeline in
\* its order; and a completed file is appended to the record only for the file
\* at the index, after all its stages, the write of the output file last.
C25_FilesAndStagesInOrder ==
    [][\A s \in SessionIds :
         /\ idx'[s] \in {idx[s], idx[s] + 1}
         /\ Len(calls'[s]) # Len(calls[s]) =>
               /\ pc[s] = "process"
               /\ Len(calls[s]) = idx[s]
               /\ Len(calls'[s]) = idx[s] + 1
         /\ \A j \in 1..Len(calls'[s]) : InStageOrder(calls'[s][j])
         /\ Len(CompletedOf(metadata', s)) > Len(CompletedOf(metadata, s)) =>
               /\ Len(calls[s]) = idx[s] + 1
               /\ Stages(calls[s][idx[s] + 1]) = StageOrder
               /\ calls[s][idx[s] + 1][Len(StageOrder)].result = "written"
               /\ OriginalNames(Get(metadata', s)) =
                     Append(OriginalNames(Get(metadata, s)),
                            uploaded_files[s][idx[s] + 1])]_vars

\* Both files of a batch went through all the stages and are the completed
\* files of the record, in the order of the batch.
C25_Witness ==
    \E s \in SessionIds :
        /\ uploaded_files[s] = <<"a.png", "b.png">>
        /\ Len(calls[s]) = 2
        /\ \A j \in 1..2 : Stages(calls[s][j]) = StageOrder
        /\ Has(metadata, s)
        /\ OriginalNames(Get(metadata, s)) = <<"a.png", "b.png">>

\* C26: the first stage event of a file has a greater progress value than the
\* event with which the Runner announced the file.
C26_ProgressIncreasesWithinFile ==
    [][\A s \in SessionIds :
         (pc[s] = "process" /\ calls'[s] # calls[s]
             /\ LastCall(s).stage = "translate_texts") =>
             /\ events[s][Len(events[s])].kind = "progress"
             /\ events'[s][Len(events[s]) + 1].kind = "progress"
             /\ events[s][Len(events[s])].progress <
                    events'[s][Len(events[s]) + 1].progress]_vars

\* The last direct call of adjust_ocr_languages was given l.
AdjustedFrom(l) == adjusted.called /\ adjusted.languages = l

\* The form's ocr_languages value is one of the tokens ts.
FormIs(form, ts) == form.has /\ Len(form.parts) = 1 /\ form.parts[1] \in ts

ChineseTokens == {"chinese", "Chinese", "CHINESE", "zh", "ZH"}
EnglishTokens == {"english", "English", "en", "EN", "En"}

\* C27: adjust_ocr_languages maps ['ch_sim'] to ['ch_sim','en'], ['ch_tra'] to
\* ['ch_tra','en'], ['en'] to ['en'] and ['fr'] to ['fr']; upload_files turns
\* the tokens chinese and zh, in any letter case, into ['ch_sim','en'] and the
\* tokens english and en into ['en']; and the record of a session holds the
\* settings upload_files made.
C27_LanguageAdjustment ==
    [][/\ AdjustedFrom(<<"ch_sim">>)' => adjusted'.result = <<"ch_sim", "en">>
       /\ AdjustedFrom(<<"ch_tra">>)' => adjusted'.result = <<"ch_tra", "en">>
       /\ AdjustedFrom(<<"en">>)' => adjusted'.result = <<"en">>
       /\ AdjustedFrom(<<"fr">>)' => adjusted'.result = <<"fr">>
       /\ \A s \in SessionIds :
            (pc[s] = "idle" /\ pc'[s] = "register") =>
               \A form \in {f \in Forms : FormIs(f, ChineseTokens \cup EnglishTokens)} :
               \A req \in Requests :
                  UploadFiles(s, req, form) =>
                     settings'[s].ocr_languages =
                        IF FormIs(form, ChineseTokens)
                        THEN <<"ch_sim", "en">> ELSE <<"en">>
       /\ \A s \in SessionIds :
            Has(metadata', s) => Get(metadata', s).settings = settings'[s]]_vars

\* A session is registered with the OCR languages ['ch_sim','en'] and a direct
\* call has turned ['ch_tra'] into ['ch_tra','en'].
C27_Witness ==
    /\ AdjustedFrom(<<"ch_tra">>) /\ adjusted.result = <<"ch_tra", "en">>
    /\ \E s \in SessionIds :
          /\ Has(metadata, s)
          /\ Get(metadata, s).settings.ocr_languages = <<"ch_sim", "en">>

\* The list holds no Chinese variant and not only the English code.
OtherLanguages(l) ==
    /\ \A k \in 1..Len(l) : l[k] \notin {"ch_sim", "ch_tra"}
    /\ \E k \in 1..Len(l) : l[k] # "en"

\* C28: adjust_ocr_languages returns a list without a Chinese variant that is
\* not English-only as it was given.
C28_OtherLanguagesPassThrough ==
    (adjusted.called /\ OtherLanguages(adjusted.languages)) =>
        adjusted.result = adjusted.languages

\* A request was accepted, a session is registered or a Runner was started.
Submitted(p, m, ps) ==
    \E s \in SessionIds : p[s] # "idle" \/ Has(m, s) \/ s \in DOMAIN ps

\* C29: in the process that app.py starts, cleanup_old_files is called at
\* most once and never as a dry run, and when a submission is accepted, a
\* session is registered or a Runner is started, that one sweep has returned.
C29_StartupSweepBeforeSubmissions ==
    [][/\ nsweeps' <= 1
       /\ sweep' # sweep => ~sweep'.dry_run
       /\ Submitted(pc', metadata', processing_sessions') =>
             nsweeps' = 1 /\ sweep'.pc = "idle"]_vars

\* The startup sweep has deleted the session of an earlier run and returned,
\* and the Runner of a submission accepted after it has finished.
C29_Witness ==
    /\ nsweeps = 1 /\ sweep.pc = "idle" /\ ~sweep.dry_run
    /\ sweep.deleted_sessions = <<PrevId>>
    /\ \E s \in SessionIds : RunnerFinished(s) /\ Has(metadata, s)

\* The Runner of s makes the step, from inside add_completed_file or
\* update_session_status.
RunnerWrites(s) ==
    s \in SessionIds /\ pc[s] \in {"add_append", "update_set"} /\ pc'[s] # pc[s]

\* C30: a record comes into the Store by the request handler of its session,
\* before the session's Runner is started, with status processing and no
\* completed file; a Runner is started for a session once, after the
\* registration; a record in the Store is changed only by the Runner of its
\* session, and only a step of a non-dry-run sweep removes it.
C30_SingleWriter ==
    [][\A s \in AllIds :
         /\ (~Has(metadata, s) /\ Has(metadata', s)) =>
               /\ s \in SessionIds /\ pc[s] = "register"
               /\ s \notin DOMAIN processing_sessions'
               /\ Get(metadata', s).status = "processing"
               /\ Get(metadata', s).completed_files = <<>>
         /\ (s \in DOMAIN processing_sessions' /\ s \notin DOMAIN processing_sessions) =>
               s \in SessionIds /\ pc[s] = "start" /\ pc'[s] = "run"
         /\ (s \in SessionIds /\ pc'[s] = "run" /\ pc[s] # "run") =>
               s \notin DOMAIN processing_sessions
         /\ (Has(metadata, s) /\ Has(metadata', s)
                /\ Get(metadata', s) # Get(metadata, s)) => RunnerWrites(s)
         /\ (Has(metadata, s) /\ ~Has(metadata', s)) =>
               sweep.pc = "delete" /\ ~sweep.dry_run /\ sweep' # sweep]_vars

\* A sweep has removed the record of an earlier run, and the record of a
\* session of this run, registered and then written by its Runner alone, is
\* completed with a completed file.
C30_Witness ==
    /\ ~Has(metadata, PrevId) /\ sweep.deleted_sessions = <<PrevId>>
    /\ \E s \in SessionIds :
          /\ pc[s] = "done" /\ Has(metadata, s)
          /\ Get(metadata, s).status = "completed"
          /\ Get(metadata, s).completed_files # <<>>

\* The files of s the Runner has dealt with that gave no entry: the Detector
\* found nothing, a stage failed or the output was not written.
FailedFiles(s) ==
    {j \in 1..Len(calls[s]) :
        calls[s][j][Len(calls[s][j])] # Call("imwrite", "written")}

\* C31: the status of every record in the Store is processing or completed; a
\* step that changes the status of a record changes it from processing to
\* completed; and when the Runner of a session sends its terminal event, the
\* session's record, if the Store has it, is completed, whatever number of
\* its files failed.
C31_StatusProcessingThenCompleted ==
    [][/\ \A r \in Records(metadata) \cup Records(metadata') :
            r.status \in {"processing", "completed"}
       /\ \A s \in AllIds :
            (Has(metadata, s) /\ Has(metadata', s)
                /\ Get(metadata', s).status # Get(metadata, s).status) =>
               /\ Get(metadata, s).status = "processing"
               /\ Get(metadata', s).status = "completed"
       /\ \A s \in SessionIds :
            (pc[s] = "final" /\ pc'[s] = "done" /\ Has(metadata', s)) =>
               Get(metadata', s).status = "completed"]_vars

\* The Runner of a session of MaxFiles files, all of which failed, has
\* returned, and the session's record is completed with no completed file;
\* and so has one of a session in which one file of two failed.
C31_Witness ==
    \E s \in SessionIds :
        /\ RunnerFinished(s) /\ Has(metadata, s)
        /\ Len(uploaded_files[s]) = MaxFiles
        /\ Cardinality(FailedFiles(s)) = MaxFiles
        /\ Get(metadata, s).status = "completed"
        /\ Get(metadata, s).completed_files = <<>>

IsPrefix(p, q) == Len(p) <= Len(q) /\ \A j \in 1..Len(p) : p[j] = q[j]

\* The record r as r2 after a step: the same id, created_at, files and
\* settings, and completed_files with nothing but entries added at its end.
OnlyAppended(r, r2) ==
    /\ r2.session_id = r.session_id
    /\ r2.created_at = r.created_at
    /\ r2.files = r.files
    /\ r2.settings = r.settings
    /\ IsPrefix(r.completed_files, r2.completed_files)

\* C32: across every step, a record that is in the Store before and after the
\* step keeps its id, created_at, files and settings, and its completed_files
\* before the step is a prefix of its completed_files after it.
C32_CompletedFilesAppendOnly ==
    [][\A s \in AllIds :
         (Has(metadata, s) /\ Has(metadata', s)) =>
            OnlyAppended(Get(metadata, s), Get(metadata', s))]_vars

\* The same for the records of the persisted document, which a save that
\* closes late can take back to an older text (C8): this one does not hold.
PersistedOnlyAppended ==
    [][\A s \in AllIds :
         (Has(LoadMetadata(disk), s) /\ Has(LoadMetadata(disk'), s)) =>
            OnlyAppended(Get(LoadMetadata(disk), s), Get(LoadMetadata(disk'), s))]_vars

\* The record of a session has got two entries, of two different files, one
\* after the other, and its Runner has set its status and returned.
C32_Witness ==
    \E s \in SessionIds :
        /\ pc[s] = "done" /\ Has(metadata, s)
        /\ Get(metadata, s).status = "completed"
        /\ Get(metadata, s).completed_files =
              <<CompletedFile(s, "a.png"), CompletedFile(s, "b.png")>>

\* upload_files has returned its response for s: the Runner thread of s was
\* started.
SubmitReturned(s) ==
    s \in SessionIds /\ pc[s] \notin {"idle", "register", "register_save",
                                      "register_close", "start"}

\* C33: a session id whose submit has returned, in this run of the server or
\* in the one before, is in processing_sessions exactly when it is in the
\* Store.
C33_SessionMapEqualsStore ==
    \A s \in AllIds :
        (s = PrevId \/ SubmitReturned(s)) =>
            (s \in DOMAIN processing_sessions <=> Has(metadata, s))

\* C34: in every processing_complete event the completed count of the summary
\* message is the number of download links of the event.
C34_SummaryCountsDownloadLinks ==
    \A s \in SessionIds : \A j \in 1..Len(events[s]) :
        events[s][j].kind = "processing_complete" =>
            events[s][j].completed = Len(events[s][j].download_links)

\* C35: for every record in the Store with status processing, of this run or
\* reloaded from the persisted document, the request handler or the Runner of
\* its session is there and has not returned.
C35_ProcessingHasRunner ==
    \A s \in AllIds :
        (Has(metadata, s) /\ Get(metadata, s).status = "processing") =>
            s \in SessionIds /\ pc[s] # "done"

\* C36: when a non-dry-run sweep has returned, in a run in which every record
\* had its uploads and its output directory before the sweeps, every session
\* whose record is still in the Store still has both directories.
C36_SweepAllOrNothing ==
    (sweep.pc = "idle" /\ nsweeps > 0 /\ ~sweep.dry_run) =>
        \A s \in Keys(metadata) : s \in DOMAIN uploads /\ s \in DOMAIN output

\* The persist of a non-dry-run sweep that deleted the record of s has
\* returned.
SweepRemoved(s) ==
    /\ ~sweep.dry_run
    /\ s \in Range(sweep.deleted_sessions)
    /\ sweep.pc \in {"orphans_uploads", "orphans_output", "idle"}

FreshlyCreated(s) ==
    /\ s \in SessionIds /\ pc[s] = "register"
    /\ s \in DOMAIN uploads /\ s \in DOMAIN output
    /\ now - uploads[s].created <= MaxAgeHours
    /\ now - output[s].created <= MaxAgeHours

\* C38: no step of a sweep removes the uploads or the output directory of a
\* session whose directories were freshly created and whose record is not yet
\* registered.
C38_SweepKeepsFreshDirectories ==
    [][\A s \in SessionIds :
         FreshlyCreated(s) => s \in DOMAIN uploads' /\ s \in DOMAIN output']_vars

\* A non-dry-run sweep has gone through both orphan passes and returned, max_age
\* after the directories of a session without a record were made, and the
\* directories are there.
C38_Witness ==
    \E s \in SessionIds :
        /\ pc[s] = "register" /\ ~Has(metadata, s)
        /\ s \in DOMAIN uploads /\ s \in DOMAIN output
        /\ sweep.pc = "idle" /\ nsweeps > 0 /\ ~sweep.dry_run
        /\ sweep.orphan_cutoff = uploads[s].created
        /\ sweep.cutoff = uploads[s].created

\* The directories made by upload_files are there when register_session is
\* called, however long after the directories were made: this one does not
\* hold, the orphan pass removes them once they are older than max_age.
UnregisteredDirectoriesKept ==
    \A s \in SessionIds :
        pc[s] = "register" => s \in DOMAIN uploads /\ s \in DOMAIN output

\* C39: in every record of the Store, in memory and persisted, any two
\* entries of completed_files have different output paths and different
\* download URLs.
C39_DistinctOutputArtifacts ==
    \A r \in Records(metadata) \cup Records(LoadMetadata(disk)) :
        \A j, k \in 1..Len(r.completed_files) :
            j # k =>
               /\ r.completed_files[j].output_path # r.completed_files[k].output_path
               /\ r.completed_files[j].download_url # r.completed_files[k].download_url
====
